---- MODULE Spec2Model ----
(***************************************************************************)
(* The command layer of the desktop backend: the shared AppState and the   *)
(* handlers agent_respond, set_model, get_all_tasks and hello_world, each  *)
(* invocation a small process that suspends at lock acquisitions and at    *)
(* outbound HTTP calls.  The task API, the inference server and the timer  *)
(* of the GET's timeout are the environment.                               *)
(***************************************************************************)
EXTENDS Integers, Sequences, FiniteSets, TLC

\* ------------------------------------------------------------------ bounds

\* Number of command invocations the front end issues in one run.
MaxInvocations == 2

Invocations == 1..MaxInvocations

\* ------------------------------------------------------------- environment

Unset == "<unset>"

\* The process environments a run may start in: TODOIST_BASE_URL and
\* TODOIST_API_KEY, Unset standing for env::var returning Err.  Both the
\* base URL and the key occur unset and set, the key also set to "".
Environments ==
  { [base |-> Unset, key |-> Unset],
    [base |-> Unset, key |-> "k1"],
    [base |-> "http://mock", key |-> ""] }

\* Arguments the front end passes.
ModelArgs == {"a", "bb"}
AgentReqs == { [persona |-> "pirate", task |-> "greet", user_msg |-> u] :
                 u \in {"", "\nAssistant: ok\nUser: hi"} }

\* What the task API and the inference server may answer.
Statuses == {200, 204, 404, 500}
OneTaskBody == "[{\"id\":\"1\",\"content\":\"c\",\"x\":7}]"
TaskBodies == {"not found", "[]", OneTaskBody}
GenBodies == {"{\"response\":\"hi\"}", "{}", "{\"response\":5}", "not json"}

\* ------------------------------------------------------------------- state

VARIABLES
  env,          \* the process environment read at startup
  todoist_base, \* AppState.todoist_base
  todoist_key,  \* the String inside AppState.todoist_key
  key_lock,     \* holder of the todoist_key mutex, 0 when free
  model_name,   \* the String behind state.model_name, as its words
  model_lock,   \* holder of the model_name mutex, 0 when free
  last_acq,     \* the invocation that acquired the model_name mutex last
  pc,           \* where each invocation stands
  cmd,          \* the command each invocation runs
  req,          \* the invocation's request payload
  key,          \* get_all_tasks: the local key
  status,       \* get_all_tasks: the status of resp
  body,         \* the body text the invocation read from its response
  decoded,      \* whether the invocation handed a body to the JSON decoder
  result,       \* what the invocation returned
  requests,     \* the outbound HTTP requests each invocation issued
  hung          \* invocations whose server never answers their request

vars == << env, todoist_base, todoist_key, key_lock, model_name, model_lock,
           last_acq, pc, cmd, req, key, status, body, decoded, result,
           requests, hung >>

\* ----------------------------------------------------------------- values

NoReq == [none |-> TRUE]
NoBody == "<no body read>"
NoResult == [tag |-> "none"]
Ok(v) == [tag |-> "ok", val |-> v]
Err(m) == [tag |-> "err", msg |-> m]
Unit == "()"

\* A Rust String is a buffer and a length; replacing one stores both words.
StringWords(s) == [ptr |-> s, len |-> Len(s)]

\* The model identifier literal of agent_respond's request body.
ModelLiteral == "llama3.2:3b-instruct"

\* env::var(..).unwrap_or_else(|_| default): the value, or the default
\* when the variable is unset.
EnvOr(v, default) == IF v = Unset THEN default ELSE v

\* AppState::new: the three fields the constructor builds.
AppState_new(e) ==
  [ http |-> "reqwest::Client",
    todoist_base |-> EnvOr(e.base, "https://api.todoist.com/rest/v2"),
    todoist_key |-> EnvOr(e.key, "") ]

\* The struct and its constructor hold no model_name field: nothing gives
\* the String that set_model locks a value before the first set_model.
NoModelName == [ptr |-> "<no model_name field>", len |-> 0]

Init ==
  /\ env \in Environments
  /\ todoist_base = AppState_new(env).todoist_base
  /\ todoist_key = AppState_new(env).todoist_key
  /\ key_lock = 0
  /\ model_name = NoModelName
  /\ model_lock = 0
  /\ last_acq = 0
  /\ pc = [i \in Invocations |-> "idle"]
  /\ cmd = [i \in Invocations |-> "none"]
  /\ req = [i \in Invocations |-> NoReq]
  /\ key = [i \in Invocations |-> ""]
  /\ status = [i \in Invocations |-> 0]
  /\ body = [i \in Invocations |-> NoBody]
  /\ decoded = [i \in Invocations |-> FALSE]
  /\ result = [i \in Invocations |-> NoResult]
  /\ requests = [i \in Invocations |-> << >>]
  /\ hung = {}

\* ------------------------------------------------------- pure computations

\* serde_json on the body texts above: the parsed value, or a parse error.
JStr(s) == [t |-> "string", s |-> s]
JNum(n) == [t |-> "number", n |-> n]
JNull == [t |-> "null"]
JObj(f) == [t |-> "object", fields |-> f]
JArr(a) == [t |-> "array", items |-> a]
JErr(d) == [t |-> "error", desc |-> d]

ParseJson(text) ==
  CASE text = "[]" -> JArr(<< >>)
    [] text = OneTaskBody ->
         JArr(<< JObj([id |-> JStr("1"), content |-> JStr("c"), x |-> JNum(7)]) >>)
    [] text = "{}" -> JObj(<< >>)
    [] text = "{\"response\":\"hi\"}" -> JObj([response |-> JStr("hi")])
    [] text = "{\"response\":5}" -> JObj([response |-> JNum(5)])
    [] OTHER -> JErr("expected ident at line 1 column 2")

\* v["response"]: Null unless v is an object that has the field.
ResponseField(v) ==
  IF v.t = "object" /\ "response" \in DOMAIN v.fields
    THEN v.fields["response"] ELSE JNull

\* .as_str().unwrap_or(d)
AsStrOr_noDefault(x, d) == IF x.t = "string" THEN x.s ELSE "<not a string>"
AsStrOr(x, d) == IF x.t = "string" THEN x.s ELSE d

\* The fields TodoistTask names; everything else lands in extra.
TaskFields == {"id", "content", "is_completed", "project_id", "section_id",
               "labels", "priority", "due"}
None == [t |-> "none"]
OptField(f, name) == IF name \in DOMAIN f THEN f[name] ELSE None

HasStr(f, name) == name \in DOMAIN f /\ f[name].t = "string"

\* Deserialize for TodoistTask: id and content are required strings, the
\* other named fields default, the unnamed ones are kept in extra.
DecodeTask(o) ==
  IF o.t # "object" THEN JErr("invalid type, expected struct TodoistTask")
  ELSE IF ~HasStr(o.fields, "id") THEN JErr("missing field id")
  ELSE IF ~HasStr(o.fields, "content") THEN JErr("missing field content")
  ELSE [ t |-> "task",
         id |-> o.fields["id"].s,
         content |-> o.fields["content"].s,
         is_completed |-> IF "is_completed" \in DOMAIN o.fields
                            THEN o.fields["is_completed"] ELSE FALSE,
         project_id |-> OptField(o.fields, "project_id"),
         section_id |-> OptField(o.fields, "section_id"),
         labels |-> OptField(o.fields, "labels"),
         priority |-> OptField(o.fields, "priority"),
         due |-> OptField(o.fields, "due"),
         extra |-> [n \in (DOMAIN o.fields) \ TaskFields |-> o.fields[n]] ]

\* resp.json::<Vec<TodoistTask>>() on a body text: Ok(tasks) in upstream
\* order, or the JSON error.
DecodeTasks(text) ==
  LET v == ParseJson(text) IN
  IF v.t = "error" THEN Err(<<"JSON error: ", v.desc>>)
  ELSE IF v.t # "array" THEN Err(<<"JSON error: ", "invalid type, expected a sequence">>)
  ELSE LET ts == [k \in DOMAIN v.items |-> DecodeTask(v.items[k])] IN
       IF \E k \in DOMAIN ts : ts[k].t = "error"
         THEN Err(<<"JSON error: ",
                    ts[CHOOSE k \in DOMAIN ts : ts[k].t = "error"].desc>>)
         ELSE Ok(ts)

\* StatusCode::is_success
IsSuccess_below500(code) == code < 500
IsSuccess(code) == 200 <= code /\ code < 300

\* Display for StatusCode: the number and the canonical reason.
Reason(code) ==
  CASE code = 200 -> "OK"
    [] code = 204 -> "No Content"
    [] code = 404 -> "Not Found"
    [] code = 500 -> "Internal Server Error"
    [] OTHER -> "<unknown status code>"

\* format!("Upstream error {code}: {body}"), as its pieces.
UpstreamError(code, b) ==
  Err(<<"Upstream error ", ToString(code), " ", Reason(code), ": ", b>>)

MissingKeyMsg == "Missing TODOIST_API_KEY (set it in your env)"

\* key.is_empty()
KeyMissing_never(k) == FALSE
KeyMissing(k) == k = ""

\* The GET that get_all_tasks builds.
TasksRequest(base, k) ==
  [ method |-> "GET",
    url |-> <<base, "/tasks">>,
    bearer |-> k,
    accept |-> "application/json",
    timeout_secs |-> 10 ]

\* The two format! calls of agent_respond, as their pieces.
SystemText(r) ==
  << "You are an on-device assistant.\nPersonality: ", r.persona,
     "\nTask: ", r.task, "\n- Be concise.\n" >>
PromptText(r) ==
  SystemText(r) \o << "\n\nUser: ", r.user_msg, "\nAssistant:" >>

\* The "model" member of the generate body: a literal, whatever the
\* shared model name holds.
AgentModel_fromState(name) == name.ptr
AgentModel(name) == ModelLiteral

\* The POST that agent_respond builds.
GenerateRequest(r, name) ==
  [ method |-> "POST",
    url |-> "http://127.0.0.1:11434/api/generate",
    json |-> [ model |-> AgentModel(name),
               prompt |-> PromptText(r),
               stream |-> FALSE,
               options |-> [temperature |-> "0.3", num_predict |-> 256] ] ]

\* agent_respond after its response body arrived.
AgentResult(text) ==
  LET v == ParseJson(text) IN
  IF v.t = "error" THEN Err(<<"error decoding response body: ", v.desc>>)
  ELSE Ok(AsStrOr(ResponseField(v), ""))

\* Only the GET is built with .timeout(..); the POST has none.
HasTimeout_never(c) == FALSE
HasTimeout(c) == c = "get_all_tasks"

\* Mutex::lock().await resumes only when nobody holds the mutex.
CanAcquire_always(lock) == TRUE
CanAcquire(lock) == lock = 0

\* The guard of line 28 is a temporary: it is dropped at the end of the
\* statement, so the mutex is free once the key is cloned.
GuardAfterClone_kept(i) == i
GuardAfterClone(i) == 0

\* ? after a failed send: the handler returns.
SendErrorPc_retry(c) == IF c = "get_all_tasks" THEN "gat_check" ELSE "agent_start"
SendErrorPc(c) == "done"

\* ----------------------------------------------------------------- actions

Upd(f, i, v) == [f EXCEPT ![i] = v]

shared == << env, todoist_base, todoist_key, key_lock, model_name, model_lock,
             last_acq >>
locals == << key, status, body, decoded >>

\* The front end invokes commands one after the other: invocation i is
\* called after every invocation below i was called.
CanInvoke(i) ==
  /\ pc[i] = "idle"
  /\ \A j \in Invocations : j < i => pc[j] # "idle"

InvokeAgentRespond(i, r) ==
  /\ CanInvoke(i)
  /\ cmd' = Upd(cmd, i, "agent_respond")
  /\ req' = Upd(req, i, r)
  /\ pc' = Upd(pc, i, "agent_start")
  /\ UNCHANGED << shared, locals, result, requests, hung >>

InvokeSetModel(i, m) ==
  /\ CanInvoke(i)
  /\ cmd' = Upd(cmd, i, "set_model")
  /\ req' = Upd(req, i, [model |-> m])
  /\ pc' = Upd(pc, i, "sm_lock")
  /\ UNCHANGED << shared, locals, result, requests, hung >>

InvokeGetAllTasks(i) ==
  /\ CanInvoke(i)
  /\ cmd' = Upd(cmd, i, "get_all_tasks")
  /\ pc' = Upd(pc, i, "gat_lock")
  /\ UNCHANGED << shared, locals, req, result, requests, hung >>

InvokeHelloWorld(i) ==
  /\ CanInvoke(i)
  /\ cmd' = Upd(cmd, i, "hello_world")
  /\ pc' = Upd(pc, i, "hello")
  /\ UNCHANGED << shared, locals, req, result, requests, hung >>

\* hello_world: prints its line and returns.
HelloWorld(i) ==
  /\ pc[i] = "hello"
  /\ pc' = Upd(pc, i, "done")
  /\ result' = Upd(result, i, Ok(Unit))
  /\ UNCHANGED << shared, locals, cmd, req, requests, hung >>

\* ---- set_model

\* let mut name = state.model_name.lock().await;
SetModelLock(i) ==
  /\ pc[i] = "sm_lock"
  /\ CanAcquire(model_lock)
  /\ model_lock' = i
  /\ last_acq' = i
  /\ pc' = Upd(pc, i, "sm_store_ptr")
  /\ UNCHANGED << env, todoist_base, todoist_key, key_lock, model_name,
                  locals, cmd, req, result, requests, hung >>

\* *name = req.model: the String behind the guard is what is written.
StoreModel_intoKey(i) ==
  /\ todoist_key' = req[i].model
  /\ UNCHANGED model_name
StoreModel(i) ==
  /\ model_name' = [model_name EXCEPT !.ptr = req[i].model]
  /\ UNCHANGED todoist_key

\* *name = req.model, first word.
SetModelStorePtr(i) ==
  /\ pc[i] = "sm_store_ptr"
  /\ StoreModel(i)
  /\ pc' = Upd(pc, i, "sm_store_len")
  /\ UNCHANGED << env, todoist_base, key_lock, model_lock, last_acq,
                  locals, cmd, req, result, requests, hung >>

\* *name = req.model, second word; Ok(()) drops the guard and returns.
SetModelStoreLen(i) ==
  /\ pc[i] = "sm_store_len"
  /\ model_name' = [model_name EXCEPT !.len = Len(req[i].model)]
  /\ model_lock' = 0
  /\ result' = Upd(result, i, Ok(Unit))
  /\ pc' = Upd(pc, i, "done")
  /\ UNCHANGED << env, todoist_base, todoist_key, key_lock, last_acq,
                  locals, cmd, req, requests, hung >>

\* ---- get_all_tasks

\* state.todoist_key.lock().await
GatLockKey(i) ==
  /\ pc[i] = "gat_lock"
  /\ CanAcquire(key_lock)
  /\ key_lock' = i
  /\ pc' = Upd(pc, i, "gat_clone")
  /\ UNCHANGED << env, todoist_base, todoist_key, model_name, model_lock,
                  last_acq, locals, cmd, req, result, requests, hung >>

\* .clone(); the statement ends.
GatCloneKey(i) ==
  /\ pc[i] = "gat_clone"
  /\ key' = Upd(key, i, todoist_key)
  /\ key_lock' = GuardAfterClone(i)
  /\ pc' = Upd(pc, i, "gat_check")
  /\ UNCHANGED << env, todoist_base, todoist_key, model_name, model_lock,
                  last_acq, status, body, decoded, cmd, req, result,
                  requests, hung >>

\* if key.is_empty() { return Err(..) }
GatMissingKey(i) ==
  /\ pc[i] = "gat_check"
  /\ KeyMissing(key[i])
  /\ result' = Upd(result, i, Err(<<MissingKeyMsg>>))
  /\ pc' = Upd(pc, i, "done")
  /\ UNCHANGED << shared, locals, cmd, req, requests, hung >>

\* The GET is built and sent; h says whether the task API will never
\* answer it.
GatSend(i, h) ==
  /\ pc[i] = "gat_check"
  /\ ~KeyMissing(key[i])
  /\ requests' = Upd(requests, i,
                     Append(requests[i], TasksRequest(todoist_base, key[i])))
  /\ hung' = IF h THEN hung \cup {i} ELSE hung
  /\ pc' = Upd(pc, i, "gat_await_send")
  /\ UNCHANGED << shared, locals, cmd, req, result >>

TransportErrors == {"error sending request: connection refused"}
TimedOut == "operation timed out"
BodyReadFailure == "<body read fails>"

\* send().await fails: map_err and ?.
GatSendFails(i, e) ==
  /\ pc[i] = "gat_await_send"
  /\ i \notin hung
  /\ result' = Upd(result, i, Err(<<"Request error: ", e>>))
  /\ pc' = Upd(pc, i, SendErrorPc(cmd[i]))
  /\ UNCHANGED << shared, locals, cmd, req, requests, hung >>

\* send().await yields a response with status st; the handler branches on
\* resp.status().is_success() and awaits the body.
GatResponse(i, st) ==
  /\ pc[i] = "gat_await_send"
  /\ i \notin hung
  /\ status' = Upd(status, i, st)
  /\ pc' = Upd(pc, i, IF IsSuccess(st) THEN "gat_await_json" ELSE "gat_await_text")
  /\ UNCHANGED << shared, key, body, decoded, cmd, req, result, requests, hung >>

\* resp.text().await.unwrap_or_default(), then the upstream error.
GatText(i, r) ==
  /\ pc[i] = "gat_await_text"
  /\ LET text == IF r = BodyReadFailure THEN "" ELSE r IN
       /\ body' = Upd(body, i, text)
       /\ result' = Upd(result, i, UpstreamError(status[i], text))
  /\ pc' = Upd(pc, i, "done")
  /\ UNCHANGED << shared, key, status, decoded, cmd, req, requests, hung >>

\* resp.json::<Vec<TodoistTask>>().await: the body is read, then decoded.
GatJson(i, r) ==
  /\ pc[i] = "gat_await_json"
  /\ IF r = BodyReadFailure
       THEN /\ result' = Upd(result, i,
                             Err(<<"JSON error: ", "error reading response body">>))
            /\ UNCHANGED << body, decoded >>
       ELSE /\ body' = Upd(body, i, r)
            /\ decoded' = Upd(decoded, i, TRUE)
            /\ result' = Upd(result, i, DecodeTasks(r))
  /\ pc' = Upd(pc, i, "done")
  /\ UNCHANGED << shared, key, status, cmd, req, requests, hung >>

\* ---- agent_respond

\* The prompt and the body are built and the POST is sent; h says whether
\* the inference server will never answer it.
AgentSend(i, h) ==
  /\ pc[i] = "agent_start"
  /\ requests' = Upd(requests, i,
                     Append(requests[i], GenerateRequest(req[i], model_name)))
  /\ hung' = IF h THEN hung \cup {i} ELSE hung
  /\ pc' = Upd(pc, i, "agent_await_send")
  /\ UNCHANGED << shared, locals, cmd, req, result >>

\* send().await fails: map_err(|e| e.to_string()) and ?.
AgentSendFails(i, e) ==
  /\ pc[i] = "agent_await_send"
  /\ i \notin hung
  /\ result' = Upd(result, i, Err(<<e>>))
  /\ pc' = Upd(pc, i, SendErrorPc(cmd[i]))
  /\ UNCHANGED << shared, locals, cmd, req, requests, hung >>

\* send().await yields a response; its status is not looked at.
AgentResponse(i) ==
  /\ pc[i] = "agent_await_send"
  /\ i \notin hung
  /\ pc' = Upd(pc, i, "agent_await_json")
  /\ UNCHANGED << shared, locals, cmd, req, result, requests, hung >>

\* resp.json().await, then v["response"].as_str().unwrap_or("").
AgentJson(i, r) ==
  /\ pc[i] = "agent_await_json"
  /\ IF r = BodyReadFailure
       THEN /\ result' = Upd(result, i, Err(<<"error reading response body">>))
            /\ UNCHANGED << body, decoded >>
       ELSE /\ body' = Upd(body, i, r)
            /\ decoded' = Upd(decoded, i, TRUE)
            /\ result' = Upd(result, i, AgentResult(r))
  /\ pc' = Upd(pc, i, "done")
  /\ UNCHANGED << shared, key, status, cmd, req, requests, hung >>

\* ---- the timer of a request built with .timeout(..)

AwaitingHttp == {"gat_await_send", "gat_await_text", "gat_await_json",
                 "agent_await_send", "agent_await_json"}

\* The timeout covers the request from send to the end of the body: the
\* pending await fails with a timed-out error.
Timeout(i) ==
  /\ HasTimeout(cmd[i])
  /\ pc[i] \in AwaitingHttp
  /\ CASE pc[i] = "gat_await_send" ->
            /\ result' = Upd(result, i, Err(<<"Request error: ", TimedOut>>))
            /\ pc' = Upd(pc, i, SendErrorPc(cmd[i]))
            /\ UNCHANGED body
       [] pc[i] = "gat_await_text" ->
            /\ body' = Upd(body, i, "")
            /\ result' = Upd(result, i, UpstreamError(status[i], ""))
            /\ pc' = Upd(pc, i, "done")
       [] pc[i] = "gat_await_json" ->
            /\ result' = Upd(result, i, Err(<<"JSON error: ", TimedOut>>))
            /\ pc' = Upd(pc, i, "done")
            /\ UNCHANGED body
       [] pc[i] = "agent_await_send" ->
            /\ result' = Upd(result, i, Err(<<TimedOut>>))
            /\ pc' = Upd(pc, i, SendErrorPc(cmd[i]))
            /\ UNCHANGED body
       [] pc[i] = "agent_await_json" ->
            /\ result' = Upd(result, i, Err(<<TimedOut>>))
            /\ pc' = Upd(pc, i, "done")
            /\ UNCHANGED body
  /\ UNCHANGED << shared, key, status, decoded, cmd, req, requests, hung >>

\* ------------------------------------------------------------ specification

\* The steps an invocation takes by itself once the runtime polls it.
HandlerStep(i) ==
  \/ HelloWorld(i)
  \/ SetModelLock(i) \/ SetModelStorePtr(i) \/ SetModelStoreLen(i)
  \/ GatLockKey(i) \/ GatCloneKey(i) \/ GatMissingKey(i)
  \/ \E h \in BOOLEAN : GatSend(i, h)
  \/ \E h \in BOOLEAN : AgentSend(i, h)

\* What the front end and the two servers do.
Environment(i) ==
  \/ \E r \in AgentReqs : InvokeAgentRespond(i, r)
  \/ \E m \in ModelArgs : InvokeSetModel(i, m)
  \/ InvokeGetAllTasks(i)
  \/ InvokeHelloWorld(i)
  \/ \E e \in TransportErrors : GatSendFails(i, e)
  \/ \E st \in Statuses : GatResponse(i, st)
  \/ \E r \in TaskBodies \cup {BodyReadFailure} : GatText(i, r)
  \/ \E r \in TaskBodies \cup {BodyReadFailure} : GatJson(i, r)
  \/ \E e \in TransportErrors : AgentSendFails(i, e)
  \/ AgentResponse(i)
  \/ \E r \in GenBodies \cup {BodyReadFailure} : AgentJson(i, r)

Next ==
  \E i \in Invocations : HandlerStep(i) \/ Environment(i) \/ Timeout(i)

Spec == Init /\ [][Next]_vars

\* The runtime keeps polling every task that can run, a mutex is handed to
\* its waiters once released, and a timer that was set fires; the servers
\* owe nothing.
FairSpec ==
  Spec /\ \A i \in Invocations : WF_vars(HandlerStep(i)) /\ WF_vars(Timeout(i))

\* ------------------------------------------------------------------ claims

Done(i) == pc[i] = "done"
Runs(i, c) == cmd[i] = c
SetModels == {i \in Invocations : Runs(i, "set_model")}
Sent(i) == Len(requests[i])
Pieces(m) == {m[k] : k \in DOMAIN m}

\* C1: once every in-flight set_model has completed, the stored model name
\* is the whole argument of the invocation that acquired the model-name
\* lock last; and whenever the lock is free (so whenever a reader could
\* hold it) the stored name is whole: the argument of a completed
\* set_model, or the state before any write.
C1_LastAcquirerWins ==
  /\ (last_acq # 0 /\ \A i \in SetModels : Done(i))
       => model_name = StringWords(req[last_acq].model)
  /\ model_lock = 0 =>
       IF last_acq = 0 THEN model_name = NoModelName
       ELSE \E i \in SetModels : Done(i) /\ model_name = StringWords(req[i].model)

\* Two set_model calls with different arguments ran concurrently, the one
\* called first acquired the lock last, and its argument is what is stored.
C1_Witness ==
  \E i, j \in SetModels :
    /\ i < j /\ Done(i) /\ Done(j)
    /\ req[i].model # req[j].model
    /\ last_acq = i
    /\ model_name = StringWords(req[i].model)

\* C2: no invocation holds the key lock or the model-name lock while it is
\* suspended on an outbound HTTP call: the key lock is held only between
\* its acquisition and the copy, the model-name lock only for the
\* replacement.
C2_NoLockAcrossHttp ==
  \A i \in Invocations :
    /\ pc[i] \in AwaitingHttp => key_lock # i /\ model_lock # i
    /\ key_lock = i => pc[i] = "gat_clone"
    /\ model_lock = i => pc[i] \in {"sm_store_ptr", "sm_store_len"}

\* A get_all_tasks is suspended on its GET after it copied a non-empty
\* key, the key lock is free, and another invocation holds a lock.
C2_Witness ==
  \E i, j \in Invocations :
    /\ pc[i] = "gat_await_send" /\ key[i] # "" /\ key_lock = 0
    /\ model_lock = j

\* C3: a get_all_tasks invoked while the stored key is empty issues no
\* outbound request at any point and returns exactly the missing-key
\* message.
C3_EmptyKeyNoRequest ==
  \A i \in Invocations :
    (Runs(i, "get_all_tasks") /\ todoist_key = "") =>
      /\ requests[i] = << >>
      /\ Done(i) => result[i] = Err(<<"Missing TODOIST_API_KEY (set it in your env)">>)

C3_Witness ==
  \E i \in Invocations :
    /\ Runs(i, "get_all_tasks") /\ Done(i) /\ todoist_key = ""
    /\ result[i].tag = "err" /\ requests[i] = << >>

\* C4: a get_all_tasks whose GET got a non-2xx status returns an error
\* that embeds the status code and the raw body ("" when the body could
\* not be read) and never decodes the body; a body is decoded only after a
\* 2xx status, and then a decode failure gives a JSON error and a decode
\* success the task sequence.
C4_StatusThenDecode ==
  \A i \in Invocations :
    (Runs(i, "get_all_tasks") /\ Done(i) /\ status[i] # 0) =>
      IF status[i] < 200 \/ status[i] > 299
        THEN /\ result[i].tag = "err"
             /\ result[i].msg[1] = "Upstream error "
             /\ ToString(status[i]) \in Pieces(result[i].msg)
             /\ body[i] # NoBody
             /\ result[i].msg[Len(result[i].msg)] = body[i]
             /\ ~decoded[i]
        ELSE /\ decoded[i] => body[i] \in TaskBodies
             /\ (decoded[i] /\ body[i] = "[]") => result[i] = Ok(<< >>)
             /\ (decoded[i] /\ body[i] = OneTaskBody) =>
                  /\ result[i].tag = "ok"
                  /\ Len(result[i].val) = 1
                  /\ result[i].val[1].id = "1"
                  /\ result[i].val[1].is_completed = FALSE
             /\ (decoded[i] /\ body[i] = "not found") =>
                  /\ result[i].tag = "err"
                  /\ result[i].msg[1] = "JSON error: "
             /\ ~decoded[i] => result[i].tag = "err"

\* The 404 "not found" case of the specification.
C4_Witness ==
  \E i \in Invocations :
    /\ Runs(i, "get_all_tasks") /\ Done(i)
    /\ status[i] = 404 /\ body[i] = "not found"
    /\ {"404", "not found"} \subseteq Pieces(result[i].msg)

\* C5, as stated: whenever the generate endpoint answered with a body, the
\* result is the body's response field if it is a string and otherwise
\* the empty string, never an error.
C5_AnswerNeverFails ==
  \A i \in Invocations :
    (Runs(i, "agent_respond") /\ Done(i) /\ body[i] # NoBody) =>
      result[i] = IF body[i] = "{\"response\":\"hi\"}" THEN Ok("hi") ELSE Ok("")

\* C5, amended: a completed agent_respond returns exactly one outcome; a
\* body that parses as JSON gives the response field if it is a string
\* and otherwise the empty string; a body that is not JSON, a body that
\* cannot be read and a transport failure give an error.
C5_ResponseOrEmptyOrError ==
  \A i \in Invocations :
    (Runs(i, "agent_respond") /\ Done(i)) =>
      /\ result[i].tag \in {"ok", "err"}
      /\ body[i] = "{\"response\":\"hi\"}" => result[i] = Ok("hi")
      /\ body[i] \in {"{}", "{\"response\":5}"} => result[i] = Ok("")
      /\ body[i] \in {"not json", NoBody} => result[i].tag = "err"

\* One agent_respond got {} and returned "", another got a body that is
\* not JSON and returned an error.
C5_Witness ==
  \E i, j \in Invocations :
    /\ Runs(i, "agent_respond") /\ Done(i) /\ body[i] = "{}"
    /\ result[i] = Ok("")
    /\ Runs(j, "agent_respond") /\ Done(j) /\ body[j] = "not json"
    /\ result[j].tag = "err"

\* C6: the request agent_respond sends is fixed by its own payload: the
\* model is the literal "llama3.2:3b-instruct" whatever set_model stored,
\* the prompt is the template filled with the payload, streaming is off
\* and the options are the two fixed ones.
C6_RequestIgnoresSharedModel ==
  \A i \in Invocations :
    Runs(i, "agent_respond") =>
      \A k \in DOMAIN requests[i] :
        /\ requests[i][k].method = "POST"
        /\ requests[i][k].url = "http://127.0.0.1:11434/api/generate"
        /\ requests[i][k].json.model = "llama3.2:3b-instruct"
        /\ requests[i][k].json.prompt =
             << "You are an on-device assistant.\nPersonality: ", req[i].persona,
                "\nTask: ", req[i].task, "\n- Be concise.\n",
                "\n\nUser: ", req[i].user_msg, "\nAssistant:" >>
        /\ requests[i][k].json.stream = FALSE
        /\ requests[i][k].json.options = [temperature |-> "0.3", num_predict |-> 256]

\* An agent_respond called after a set_model has sent its request, and the
\* stored model name is that set_model's argument.
C6_Witness ==
  \E i, j \in Invocations :
    /\ j < i /\ Runs(j, "set_model") /\ Done(j)
    /\ model_name = StringWords(req[j].model)
    /\ Runs(i, "agent_respond") /\ Sent(i) = 1

\* C7: construction yields the base URL and the key from the environment
\* or their defaults, and the model name "llama3.2:3b-instruct", which
\* stays until the first set_model acquires the lock.
C7_ConstructedDefaults ==
  /\ todoist_base = (IF env.base = Unset THEN "https://api.todoist.com/rest/v2"
                                         ELSE env.base)
  /\ todoist_key = (IF env.key = Unset THEN "" ELSE env.key)
  /\ last_acq = 0 => model_name = StringWords("llama3.2:3b-instruct")

\* C8: nothing is retried: an invocation issues at most one outbound
\* request, set_model and hello_world and a get_all_tasks without a key
\* issue none, and an invocation that holds a failure has returned it.
C8_NoRetry ==
  \A i \in Invocations :
    /\ Sent(i) <= 1
    /\ (Runs(i, "set_model") \/ Runs(i, "hello_world")) => Sent(i) = 0
    /\ (Runs(i, "get_all_tasks") /\ pc[i] \notin {"gat_lock", "gat_clone"}
          /\ key[i] = "") => Sent(i) = 0
    /\ result[i].tag = "err" => Done(i)

\* A get_all_tasks whose send failed returned the failure after its one
\* request.
C8_Witness ==
  \E i \in Invocations :
    /\ Runs(i, "get_all_tasks") /\ Done(i) /\ Sent(i) = 1
    /\ result[i].tag = "err" /\ result[i].msg[1] = "Request error: "

\* C9: every get_all_tasks and every set_model eventually returns (from
\* some point on, every one that was invoked has returned), also when the
\* task API never answers and also while an agent_respond is stalled; an
\* agent_respond whose inference server never answers stays suspended on
\* its POST for ever.
C9_TimeoutBoundsGetOnly ==
  /\ <>[](\A i \in Invocations :
            (Runs(i, "get_all_tasks") \/ Runs(i, "set_model")) => Done(i))
  /\ [][\A i \in Invocations :
          (pc[i] = "agent_await_send" /\ i \in hung)
            => pc'[i] = "agent_await_send"]_vars

\* An agent_respond is stalled on a server that never answers, and a
\* get_all_tasks called after it, whose task API never answers either,
\* has returned the timeout.
C9_Witness ==
  \E i, j \in Invocations :
    /\ i < j
    /\ pc[i] = "agent_await_send" /\ i \in hung
    /\ Runs(j, "get_all_tasks") /\ j \in hung /\ Done(j)
    /\ result[j] = Err(<<"Request error: ", TimedOut>>)

\* C10: no command writes the task-API key or base URL: both keep their
\* values of construction, so with no key at startup every get_all_tasks
\* that returns has failed with the missing-key error; and a step of
\* set_model changes nothing of the shared state but the model name and
\* its lock.
C10_KeyAndBaseFrozen ==
  /\ [](/\ todoist_base = (IF env.base = Unset
                             THEN "https://api.todoist.com/rest/v2" ELSE env.base)
        /\ todoist_key = (IF env.key = Unset THEN "" ELSE env.key)
        /\ \A i \in Invocations :
             (env.key \in {Unset, ""} /\ Runs(i, "get_all_tasks") /\ Done(i))
               => result[i] = Err(<<MissingKeyMsg>>))
  /\ [][/\ todoist_base' = todoist_base
        /\ todoist_key' = todoist_key
        /\ env' = env
        /\ \A i \in Invocations :
             (Runs(i, "set_model") /\ pc'[i] # pc[i]) =>
               /\ key_lock' = key_lock
               /\ requests' = requests
               /\ \A j \in Invocations \ {i} :
                    pc'[j] = pc[j] /\ result'[j] = result[j]]_vars

\* With no key at startup, a set_model stored its argument and a
\* get_all_tasks called after it still failed with the missing-key error.
C10_Witness ==
  \E i, j \in Invocations :
    /\ i < j /\ env.key = Unset
    /\ Runs(i, "set_model") /\ Done(i) /\ model_name = StringWords(req[i].model)
    /\ Runs(j, "get_all_tasks") /\ Done(j) /\ result[j] = Err(<<MissingKeyMsg>>)

====
